---- MODULE Spec2Model ----
(***************************************************************************)
(* Model of src/src/main.rs: the outer loop of main, the sliding-window    *)
(* scheduler find_valid_url_for_question, the probe check_url and the      *)
(* Ctrl+C handler handle_signals.                                          *)
(*                                                                         *)
(* check_url is an async fn: a future pushed into FuturesUnordered does    *)
(* not run until the scheduler awaits futures.next(); it then runs from    *)
(* one await point to the next.  The first future that becomes Ready ends  *)
(* the poll, and the scheduler acts on its output before any other future  *)
(* is polled again.  Returning from the scheduler drops the futures still  *)
(* in the set: they never run again.  handle_signals is a spawned task on  *)
(* the multi-threaded runtime, so its store can fall between any two       *)
(* steps; every load of STOP_REQUESTED is therefore a step of its own.     *)
(***************************************************************************)
EXTENDS Integers, Sequences, FiniteSets

\* Scaled-down ranges (main.rs:26-29 are 10_000, 80_000, 300 and 5).
UID_START == 1
UID_END == 5
QUESTION_COUNT == 2
MAX_CONCURRENCY == 2

\* main.rs:83 `retries > 3` and main.rs:91 `15 * retries`.
MaxRetries == 3
BaseDelay == 15

\* Largest value of the optional START_QNUM argument that is tried.
MaxStartArg == 2

VARIABLES
    STOP_REQUESTED,  \* main.rs:31
    VALID_LOGGER,    \* main.rs:32, [opened, lines]: the lazily created log and the file's lines
    start_qnum,      \* main.rs:174
    qnum,            \* main.rs:188 loop variable
    mainPc,          \* "check" (189), "scan" (193), "exit" (196)
    schedPc,         \* position in find_valid_url_for_question
    uid,             \* main.rs:123 loop variable
    futures,         \* main.rs:121, the set of check_url futures held
    res,             \* the output futures.next() has just yielded
    lateAdmits,      \* history: number of pushes done while STOP_REQUESTED was true
    probed           \* history: outer keys for which a request was sent

vars == <<STOP_REQUESTED, VALID_LOGGER, start_qnum, qnum, mainPc, schedPc,
          uid, futures, res, lateAdmits, probed>>

None == <<>>
NoResp == [ok |-> FALSE, status |-> -1, final |-> <<>>]
NoRes == [uid |-> 0, outcome |-> "none"]

\* The command-line template, as the text pieces around its two placeholders.
Template == <<"https://x.test/", "{uid}", "-question-", "{qnum}">>

\* The line valid_urls.log holds from an earlier run.
StaleLine == <<"https://x.test/", "0", "-question-", "0">>

\* A final URL other than the requested one.
Redirected == <<"https://x.test/", "login">>

Statuses == {200, 301, 404, 429}

Digits == <<"0", "1", "2", "3", "4", "5", "6", "7", "8", "9">>

\* u32::to_string: the decimal digits, most significant first.
RECURSIVE ToString(_)
ToString(n) ==
    IF n < 10 THEN <<Digits[n + 1]>> ELSE ToString(n \div 10) \o <<Digits[(n % 10) + 1]>>

\* str::replace: every occurrence of the token is replaced by the text.
RECURSIVE Replace(_, _, _)
Replace(s, token, text) ==
    IF s = <<>> THEN <<>>
    ELSE (IF Head(s) = token THEN text ELSE <<Head(s)>>) \o Replace(Tail(s), token, text)

\* main.rs:51-53
Substitute(u, q) ==
    Replace(Replace(Template, "{uid}", ToString(u)), "{qnum}", ToString(q))

\* The optional START_QNUM argument: absent, or a text that parses as u32 or not.
StartArgs ==
    {[given |-> FALSE, parses |-> FALSE, val |-> 0], [given |-> TRUE, parses |-> FALSE, val |-> 0]}
        \cup {[given |-> TRUE, parses |-> TRUE, val |-> v] : v \in 0..MaxStartArg}

\* args.get(2).and_then(parse::<u32>).filter(v > 0).unwrap_or(1)
ParseStart(arg) == IF arg.given /\ arg.parses /\ arg.val > 0 THEN arg.val ELSE 1

\* What can come back from a request for url: a status with the final URL the
\* client reports, which without redirect following is the requested URL or,
\* for a 200, also a different text; ok = FALSE is a transport error.
Responses(url) ==
    {[ok |-> TRUE, status |-> s, final |-> url] : s \in Statuses}
        \cup {[ok |-> TRUE, status |-> 200, final |-> Redirected],
              [ok |-> FALSE, status |-> 0, final |-> <<>>]}

\* Variant: every error status is retried.
IsRateLimited_AnyError(status) == status >= 400

IsRateLimited(status) == status = 429

\* Variant: gives up one 429 early.
GiveUp_OneEarly(retries) == retries >= MaxRetries

GiveUp(retries) == retries > MaxRetries

Backoff(retries) == BaseDelay * retries

\* Variant: the final URL is not compared.
IsFound_StatusOnly(status, final, url) == status = 200

\* Variant: every status below 400 counts as found.
IsFound_NotError(status, final, url) == status < 400

IsFound(status, final, url) == status = 200 /\ final = url

\* Variant: the window test is off by one.
WindowFull_OffByOne(n) == n > MAX_CONCURRENCY

\* main.rs:128
WindowFull(n) == n >= MAX_CONCURRENCY

\* Variant: the for loop does not look at the flag.
AdmissionStopped_Never(stop) == FALSE

\* main.rs:124
AdmissionStopped(stop) == stop

\* Variant: the drain loop does not look at the flag.
DrainBreak_Never(stop) == FALSE

\* main.rs:140
DrainBreak(stop) == stop

\* Variant: a found URL does not end the scan of the outer key.
ShortCircuit_Never(result) == FALSE

\* Variant: any completion ends the scan of the outer key.
ShortCircuit_Always(result) == TRUE

\* main.rs:130 and main.rs:143
ShortCircuit(result) == result # None

\* Variant: the outer loop does not look at the flag.
LoopEnds_IgnoresFlag(q, stop) == q > QUESTION_COUNT

\* Variant: the outer range excludes its upper end.
LoopEnds_Exclusive(q, stop) == q >= QUESTION_COUNT \/ stop

\* main.rs:188-191
LoopEnds(q, stop) == q > QUESTION_COUNT \/ stop

\* Variant: the line is written twice.
WriteLog_Twice(log, url) ==
    [opened |-> TRUE,
     lines |-> IF log.opened THEN log.lines \o <<url, url>> ELSE <<url, url>>]

\* writeln!(log, url): the first use creates the file, truncating it.
WriteLog(log, url) ==
    [opened |-> TRUE,
     lines |-> IF log.opened THEN Append(log.lines, url) ELSE <<url>>]

\* Variant: every future is built for the first inner id.
NewTask_FirstId(u, q) ==
    [uid |-> UID_START, qnum |-> q, pc |-> "new", url |-> <<>>, retries |-> 0,
     attempts |-> 0, slept |-> <<>>, last |-> NoResp]

NewTask(u, q) ==
    [uid |-> u, qnum |-> q, pc |-> "new", url |-> <<>>, retries |-> 0,
     attempts |-> 0, slept |-> <<>>, last |-> NoResp]

Init ==
    /\ STOP_REQUESTED = FALSE
    /\ VALID_LOGGER = [opened |-> FALSE, lines |-> <<StaleLine>>]
    /\ start_qnum \in {ParseStart(a) : a \in StartArgs}
    /\ qnum = start_qnum
    /\ mainPc = "check"
    /\ schedPc = "idle"
    /\ uid = UID_START
    /\ futures = {}
    /\ res = NoRes
    /\ lateAdmits = 0
    /\ probed = {}

\* handle_signals: Ctrl+C arrives and the flag is stored.
Signal ==
    /\ ~STOP_REQUESTED
    /\ mainPc # "exit"
    /\ STOP_REQUESTED' = TRUE
    /\ UNCHANGED <<VALID_LOGGER, start_qnum, qnum, mainPc, schedPc, uid, futures,
                   res, lateAdmits, probed>>

\* main.rs:188-193: one turn of the outer loop.
MainCheck ==
    /\ mainPc = "check"
    /\ IF LoopEnds(qnum, STOP_REQUESTED)
       THEN /\ mainPc' = "exit"
            /\ UNCHANGED <<schedPc, uid, futures>>
       ELSE /\ mainPc' = "scan"
            /\ schedPc' = "for"
            /\ uid' = UID_START
            /\ futures' = {}
    /\ UNCHANGED <<STOP_REQUESTED, VALID_LOGGER, start_qnum, qnum, res, lateAdmits, probed>>

\* Variant: the futures still held outlive the scheduler's return.
Return_KeepsFutures ==
    /\ futures' = futures
    /\ res' = NoRes
    /\ schedPc' = "idle"
    /\ mainPc' = "check"
    /\ qnum' = qnum + 1

\* The scheduler returns: the futures still held are dropped, main goes on.
Return ==
    /\ futures' = {}
    /\ res' = NoRes
    /\ schedPc' = "idle"
    /\ mainPc' = "check"
    /\ qnum' = qnum + 1

\* main.rs:123-126: head of the for loop.
SchedFor ==
    /\ schedPc = "for"
    /\ schedPc' = IF uid = UID_END \/ AdmissionStopped(STOP_REQUESTED)
                  THEN "await_drain" ELSE "while"
    /\ UNCHANGED <<STOP_REQUESTED, VALID_LOGGER, start_qnum, qnum, mainPc, uid,
                   futures, res, lateAdmits, probed>>

\* Variant: the inner loop variable is not advanced.
SchedWhile_SameId ==
    /\ schedPc = "while"
    /\ IF WindowFull(Cardinality(futures))
       THEN /\ schedPc' = "await_fill"
            /\ UNCHANGED <<uid, futures, lateAdmits>>
       ELSE /\ futures' = futures \cup {NewTask(uid, qnum)}
            /\ uid' = uid
            /\ schedPc' = "for"
            /\ lateAdmits' = IF STOP_REQUESTED THEN lateAdmits + 1 ELSE lateAdmits
    /\ UNCHANGED <<STOP_REQUESTED, VALID_LOGGER, start_qnum, qnum, mainPc, res, probed>>

\* main.rs:128-136: the window test; with a free slot the candidate is pushed
\* in the same run of the scheduler, without another look at the flag.
SchedWhile ==
    /\ schedPc = "while"
    /\ IF WindowFull(Cardinality(futures))
       THEN /\ schedPc' = "await_fill"
            /\ UNCHANGED <<uid, futures, lateAdmits>>
       ELSE /\ futures' = futures \cup {NewTask(uid, qnum)}
            /\ uid' = uid + 1
            /\ schedPc' = "for"
            /\ lateAdmits' = IF STOP_REQUESTED THEN lateAdmits + 1 ELSE lateAdmits
    /\ UNCHANGED <<STOP_REQUESTED, VALID_LOGGER, start_qnum, qnum, mainPc, res, probed>>

\* main.rs:129-133: a future completed while the window was full.
SchedGotFill ==
    /\ schedPc = "got_fill"
    /\ IF ShortCircuit(res.result)
       THEN Return
       ELSE /\ schedPc' = "while"
            /\ res' = NoRes
            /\ UNCHANGED <<qnum, mainPc, futures>>
    /\ UNCHANGED <<STOP_REQUESTED, VALID_LOGGER, start_qnum, uid, lateAdmits, probed>>

\* main.rs:139: futures.next() yields None on an empty set and the loop ends.
SchedDrainEmpty ==
    /\ schedPc = "await_drain"
    /\ futures = {}
    /\ Return
    /\ UNCHANGED <<STOP_REQUESTED, VALID_LOGGER, start_qnum, uid, lateAdmits, probed>>

\* main.rs:140-145: a future completed during the drain.
SchedGotDrain ==
    /\ schedPc = "got_drain"
    /\ IF DrainBreak(STOP_REQUESTED) \/ ShortCircuit(res.result)
       THEN Return
       ELSE /\ schedPc' = "await_drain"
            /\ res' = NoRes
            /\ UNCHANGED <<qnum, mainPc, futures>>
    /\ UNCHANGED <<STOP_REQUESTED, VALID_LOGGER, start_qnum, uid, lateAdmits, probed>>

\* The scheduler is suspended in futures.next().await: the futures may run.
Awaiting == schedPc \in {"await_fill", "await_drain"}

\* check_url returns: the future t leaves the set and its output goes to the
\* scheduler; resp is the response it returns on (NoResp when it returns on the
\* flag) and retries the 429 count.
Finish(t, resp, retries, result, outcome) ==
    /\ futures' = futures \ {t}
    /\ res' = [uid |-> t.uid, url |-> t.url, result |-> result, outcome |-> outcome,
               resp |-> resp, retries |-> retries, attempts |-> t.attempts,
               slept |-> t.slept]
    /\ schedPc' = IF schedPc = "await_fill" THEN "got_fill" ELSE "got_drain"

\* main.rs:47-57: first poll, up to the jitter sleep.
ProbeStart(t) ==
    /\ Awaiting
    /\ t.pc = "new"
    /\ IF STOP_REQUESTED
       THEN Finish(t, NoResp, t.retries, None, "Cancelled")
       ELSE /\ futures' = (futures \ {t}) \cup
                    {[t EXCEPT !.pc = "jitter", !.url = Substitute(t.uid, t.qnum)]}
            /\ UNCHANGED <<res, schedPc>>
    /\ UNCHANGED <<STOP_REQUESTED, VALID_LOGGER, start_qnum, qnum, mainPc, uid,
                   lateAdmits, probed>>

\* Variant: the request is sent without a look at the flag.
ProbeAttempt_IgnoresFlag(t) ==
    /\ Awaiting
    /\ t.pc \in {"jitter", "backoff"}
    /\ futures' = (futures \ {t}) \cup {[t EXCEPT !.pc = "request", !.attempts = @ + 1]}
    /\ probed' = probed \cup {t.qnum}
    /\ UNCHANGED <<res, schedPc>>
    /\ UNCHANGED <<STOP_REQUESTED, VALID_LOGGER, start_qnum, qnum, mainPc, uid, lateAdmits>>

\* main.rs:64-76: a sleep is over; head of the retry loop and the request.
ProbeAttempt(t) ==
    /\ Awaiting
    /\ t.pc \in {"jitter", "backoff"}
    /\ IF STOP_REQUESTED
       THEN /\ Finish(t, NoResp, t.retries, None, "Cancelled")
            /\ UNCHANGED probed
       ELSE /\ futures' = (futures \ {t}) \cup
                    {[t EXCEPT !.pc = "request", !.attempts = @ + 1]}
            /\ probed' = probed \cup {t.qnum}
            /\ UNCHANGED <<res, schedPc>>
    /\ UNCHANGED <<STOP_REQUESTED, VALID_LOGGER, start_qnum, qnum, mainPc, uid, lateAdmits>>

\* main.rs:78-115: the response r, or the transport error, has arrived.
Classify(t, r) ==
    IF ~r.ok
    THEN /\ Finish(t, r, t.retries, None, "Error")
         /\ UNCHANGED VALID_LOGGER
    ELSE IF IsRateLimited(r.status)
    THEN /\ IF GiveUp(t.retries + 1)
            THEN Finish(t, r, t.retries + 1, None, "RateLimited")
            ELSE /\ futures' = (futures \ {t}) \cup
                         {[t EXCEPT !.pc = "backoff", !.retries = @ + 1, !.last = r,
                                    !.slept = Append(@, Backoff(t.retries + 1))]}
                 /\ UNCHANGED <<res, schedPc>>
         /\ UNCHANGED VALID_LOGGER
    ELSE IF IsFound(r.status, r.final, t.url)
    THEN /\ VALID_LOGGER' = WriteLog(VALID_LOGGER, t.url)
         /\ Finish(t, r, t.retries, t.url, "Found")
    ELSE /\ Finish(t, r, t.retries, None, "Rejected")
         /\ UNCHANGED VALID_LOGGER

\* Variant: the flag is looked at again when the response arrives.
ProbeResponse_RechecksFlag(t) ==
    /\ Awaiting
    /\ t.pc = "request"
    /\ IF STOP_REQUESTED
       THEN /\ Finish(t, NoResp, t.retries, None, "Cancelled")
            /\ UNCHANGED VALID_LOGGER
       ELSE \E r \in Responses(t.url) : Classify(t, r)
    /\ UNCHANGED <<STOP_REQUESTED, start_qnum, qnum, mainPc, uid, lateAdmits, probed>>

ProbeResponse(t) ==
    /\ Awaiting
    /\ t.pc = "request"
    /\ \E r \in Responses(t.url) : Classify(t, r)
    /\ UNCHANGED <<STOP_REQUESTED, start_qnum, qnum, mainPc, uid, lateAdmits, probed>>

Next ==
    \/ Signal
    \/ MainCheck
    \/ SchedFor
    \/ SchedWhile
    \/ SchedGotFill
    \/ SchedDrainEmpty
    \/ SchedGotDrain
    \/ \E t \in futures : ProbeStart(t)
    \/ \E t \in futures : ProbeAttempt(t)
    \/ \E t \in futures : ProbeResponse(t)

Spec == Init /\ [][Next]_vars

\* The runtime keeps polling main, and every sleep and every request (5 s
\* timeout) ends; only the arrival of Ctrl+C is not guaranteed.
Progress ==
    \/ MainCheck
    \/ SchedFor
    \/ SchedWhile
    \/ SchedGotFill
    \/ SchedDrainEmpty
    \/ SchedGotDrain
    \/ \E t \in futures : ProbeStart(t)
    \/ \E t \in futures : ProbeAttempt(t)
    \/ \E t \in futures : ProbeResponse(t)

FairSpec == Spec /\ WF_vars(Progress)

----
\* The lines written to the log in this run.
Appended == IF VALID_LOGGER.opened THEN VALID_LOGGER.lines ELSE <<>>

\* The text of a logged URL after its "-question-" piece: the outer key.
RECURSIVE After(_, _)
After(s, piece) ==
    IF s = <<>> THEN <<>>
    ELSE IF Head(s) = piece THEN Tail(s) ELSE After(Tail(s), piece)

RecordsOf(q) == {i \in 1..Len(Appended) : After(Appended[i], "-question-") = ToString(q)}

HasRecord(q) == RecordsOf(q) # {}

Observed == schedPc \in {"got_fill", "got_drain"}

\* C1: the number of check_url futures the scheduler holds never exceeds
\* MAX_CONCURRENCY.
C1_WindowBounded == Cardinality(futures) <= MAX_CONCURRENCY

C1_Witness ==
    /\ schedPc = "await_fill"
    /\ Cardinality(futures) = MAX_CONCURRENCY
    /\ \A t \in futures : t.pc = "request"

\* C2: in one run at most one line is appended to the log for any one outer key.
C2_OneRecordPerKey ==
    \A q \in 1..QUESTION_COUNT : Cardinality(RecordsOf(q)) <= 1

C2_Witness ==
    /\ MAX_CONCURRENCY > 1
    /\ Observed
    /\ res.outcome = "Found"
    /\ HasRecord(qnum)
    /\ \E t \in futures : t.pc = "request" /\ t.qnum = qnum

\* The step is the scheduler's return to main.
Returns == schedPc # "idle" /\ schedPc' = "idle"

\* The step adds a check_url future to the set.
Admits == \E t \in futures' : t.pc = "new" /\ t \notin futures

\* The future of inner id u, in the state s of the set.
TaskOf(s, u) == {t \in s : t.uid = u}

C4_Original == [][STOP_REQUESTED => ~Admits]_vars

\* C4 amended: after the flag is set at most one more candidate is admitted in
\* the whole run, and a future that has not started when the flag is set never
\* gets past its first check: it sends no request.
C4_AtMostOneLateAdmit ==
    /\ [](lateAdmits <= 1)
    /\ [][STOP_REQUESTED =>
            \A t \in futures : t.pc = "new" =>
                \A n \in TaskOf(futures', t.uid) : n.pc = "new"]_vars

C4_Witness ==
    /\ lateAdmits = 1
    /\ Observed
    /\ res.outcome = "Cancelled"
    /\ res.attempts = 0
    /\ res.uid = uid - 1

\* C5: a candidate that is answered 429 every time is requested exactly 4
\* times and then yields no result; the sleeps before the retries are 15, 30
\* and 45 seconds, and there is none after the 4th 429.
C5_RetryPolicy ==
    /\ \A t \in futures :
          /\ t.attempts <= 4
          /\ t.slept = [n \in 1..Len(t.slept) |-> 15 * n]
          /\ t.pc = "request" => Len(t.slept) = t.attempts - 1
          /\ t.pc = "backoff" => Len(t.slept) = t.attempts /\ t.attempts <= 3
    /\ (Observed /\ res.resp.ok /\ res.resp.status = 429 /\ res.outcome # "Cancelled") =>
          /\ res.outcome = "RateLimited"
          /\ res.attempts = 4
          /\ res.slept = <<15, 30, 45>>
          /\ res.result = None

C5_Witness ==
    /\ Observed
    /\ res.outcome = "RateLimited"
    /\ res.attempts = 4
    /\ ~STOP_REQUESTED

\* C6: check_url returns Some and writes the log exactly when the response has
\* status 200 and a final URL equal to the requested one; every other response
\* leaves the log as it is.
C6_FoundIffExactMatch ==
    /\ [](Observed =>
            ((res.result # None) <=>
                (res.resp.ok /\ res.resp.status = 200 /\ res.resp.final = res.url)))
    /\ [][IF res' # res /\ res'.outcome # "none" /\ res'.result # None
          THEN Appended' = Append(Appended, res'.result) /\ res'.result = res'.url
          ELSE VALID_LOGGER' = VALID_LOGGER]_vars

C6_Witness ==
    /\ Observed
    /\ res.outcome = "Rejected"
    /\ res.resp.status = 200
    /\ res.resp.final = Redirected
    /\ Appended = <<>>

\* C7: when the flag is already set at the outer loop's first check, the one
\* step main can take is to its exit, where nothing more happens; no request
\* has been sent and the log has not been written.
C7_StopBeforeStart ==
    /\ [][(mainPc = "check" /\ qnum = start_qnum /\ STOP_REQUESTED) => mainPc' = "exit"]_vars
    /\ [][mainPc # "exit"]_vars
    /\ []((mainPc = "exit" /\ qnum = start_qnum) =>
            (probed = {} /\ ~VALID_LOGGER.opened /\ futures = {}))

C7_Witness ==
    /\ mainPc = "exit"
    /\ STOP_REQUESTED
    /\ qnum = start_qnum
    /\ qnum <= QUESTION_COUNT
    /\ probed = {}

\* The step leaves the future t at a sleep or with a request sent that it was
\* not at before.
Enters(t) ==
    /\ t.pc \in {"jitter", "backoff", "request"}
    /\ \A o \in futures : o.uid = t.uid => o.pc # t.pc \/ o.attempts # t.attempts

\* C8 as stated: with the flag set, no future starts a sleep or a request.
C8_Claim == [][STOP_REQUESTED => \A t \in futures' : ~Enters(t)]_vars

\* C9 as stated: with the flag set, a response that arrives yields no result
\* and no line in the log.
C9_Original ==
    [][STOP_REQUESTED =>
          /\ VALID_LOGGER' = VALID_LOGGER
          /\ (res' # res /\ res'.outcome # "none") => res'.result = None]_vars

\* C9 amended: the flag is not looked at when a response arrives.  With the
\* flag set, a future whose request is out never ends as cancelled, and a 200
\* with the requested final URL is still written to the log and returned.
C9_ResponseIgnoresFlag ==
    [][(STOP_REQUESTED /\ res' # res /\ res'.outcome # "none") =>
          \A t \in TaskOf(futures, res'.uid) : t.pc = "request" =>
              /\ res'.outcome # "Cancelled"
              /\ (res'.resp.ok /\ res'.resp.status = 200 /\ res'.resp.final = t.url) =>
                    /\ res'.result = t.url
                    /\ Appended' = Append(Appended, t.url)]_vars

C9_Witness ==
    /\ STOP_REQUESTED
    /\ Observed
    /\ res.outcome = "Found"
    /\ HasRecord(qnum)

\* C10: once a found URL of the outer key has come back to the scheduler, no
\* candidate is admitted, no request is sent and nothing is written for that
\* key any more: the scheduler returns and the futures it held are gone.
C10_NothingAfterFound ==
    /\ [](\A t \in futures : t.qnum = qnum)
    /\ [](HasRecord(qnum) => Observed /\ res.outcome = "Found")
    /\ [][HasRecord(qnum) =>
            /\ futures' \in {futures, {}}
            /\ uid' = uid
            /\ probed' = probed
            /\ VALID_LOGGER' = VALID_LOGGER]_vars

C10_Witness ==
    /\ schedPc = "got_fill"
    /\ res.outcome = "Found"
    /\ uid < UID_END
    /\ \E t \in futures : t.pc \in {"request", "backoff"}

\* The step is one of the scheduler acting on the output it holds.
SchedulerActs == Observed /\ schedPc' # schedPc

\* C11: when the scheduler holds a found URL, that URL is already the last
\* line of the log and occurs there once; the scheduler's own step writes
\* nothing, and no line of the log is ever repeated.
C11_AppendedOnceBeforeReturn ==
    /\ []((Observed /\ res.outcome = "Found") =>
            /\ Appended # <<>>
            /\ Appended[Len(Appended)] = res.result
            /\ Cardinality({i \in 1..Len(Appended) : Appended[i] = res.result}) = 1)
    /\ [](\A i, j \in 1..Len(Appended) : Appended[i] = Appended[j] => i = j)
    /\ [][SchedulerActs => VALID_LOGGER' = VALID_LOGGER]_vars

C11_Witness ==
    /\ schedPc = "got_drain"
    /\ res.outcome = "Found"
    /\ Len(Appended) = 2

\* C12: with the flag clear, a completion without a result leaves the scheduler
\* in the scan of the same outer key, at the window test or in the drain, with
\* the other futures kept; the scheduler returns without a line for its key
\* only after the last inner id was admitted and every future has completed,
\* and main then goes to the next outer key.
C12_FailureDoesNotStopScan ==
    /\ [][(SchedulerActs /\ res.outcome \in {"Rejected", "RateLimited", "Error"}
             /\ ~(schedPc = "got_drain" /\ STOP_REQUESTED)) =>
            /\ schedPc' = IF schedPc = "got_fill" THEN "while" ELSE "await_drain"
            /\ futures' = futures
            /\ qnum' = qnum
            /\ mainPc' = mainPc]_vars
    /\ [][(Returns /\ ~STOP_REQUESTED /\ ~HasRecord(qnum)) =>
            /\ uid = UID_END
            /\ futures = {}
            /\ qnum' = qnum + 1
            /\ mainPc' = "check"]_vars
    /\ []((Observed /\ res.outcome = "RateLimited") => (res.attempts = 4 /\ res.result = None))

C12_Witness ==
    /\ mainPc = "scan"
    /\ qnum = start_qnum + 1
    /\ start_qnum \in probed
    /\ Appended = <<>>
    /\ ~STOP_REQUESTED

\* C13: with every sleep and every request ending, and main being polled, the
\* process reaches its exit, whatever the responses and whether or not Ctrl+C
\* arrives; at the exit the flag is set or the outer range is used up.
C13_Terminates ==
    /\ <>(mainPc = "exit")
    /\ [](mainPc = "exit" => (STOP_REQUESTED \/ qnum > QUESTION_COUNT))

C13_Witness ==
    /\ mainPc = "exit"
    /\ ~STOP_REQUESTED
    /\ qnum = QUESTION_COUNT + 1
    /\ start_qnum <= QUESTION_COUNT
    /\ Appended = <<>>

\* C14 as stated: the log file is created, and what it held before is gone,
\* before the first request is sent and by the time main exits.
C14_Claim ==
    (probed # {} \/ mainPc = "exit") =>
        /\ VALID_LOGGER.opened
        /\ \A i \in 1..Len(VALID_LOGGER.lines) : VALID_LOGGER.lines[i] # StaleLine

\* C15: main scans the outer keys start_qnum, start_qnum + 1, ... up to and
\* including QUESTION_COUNT: the key changes only by one, at the scheduler's
\* return; a scan begins only from the loop head with the flag seen clear, the
\* scheduler idle and no future held; with the flag set the loop head leads to
\* the exit; without the flag main exits only past QUESTION_COUNT.
C15_KeysInOrder ==
    /\ [](qnum >= start_qnum)
    /\ [](mainPc = "scan" => qnum <= QUESTION_COUNT)
    /\ []((mainPc = "exit" /\ ~STOP_REQUESTED) => qnum > QUESTION_COUNT)
    /\ [][qnum' # qnum => (Returns /\ mainPc = "scan" /\ qnum' = qnum + 1)]_vars
    /\ [][(mainPc' = "scan" /\ mainPc # "scan") =>
            /\ mainPc = "check"
            /\ ~STOP_REQUESTED
            /\ schedPc = "idle"
            /\ futures = {}
            /\ qnum' = qnum]_vars
    /\ [][(mainPc = "check" /\ STOP_REQUESTED) => mainPc' = "exit"]_vars

C15_Witness ==
    /\ mainPc = "scan"
    /\ qnum = QUESTION_COUNT
    /\ start_qnum < QUESTION_COUNT
    /\ \E t \in futures : t.pc = "request"

\* C16: a future is at a backoff sleep or at a second or later request only
\* when its last response was a 429; a transport error or a response with
\* another status takes the future out of the set with that attempt as its
\* last one.
C16_RetryOnly429 ==
    /\ [](\A t \in futures :
            /\ t.attempts = (IF t.pc = "request" THEN t.retries + 1 ELSE t.retries)
            /\ (t.pc = "backoff" \/ t.attempts > 1) => (t.last.ok /\ t.last.status = 429))
    /\ []((Observed /\ res.outcome \in {"Error", "Rejected", "Found"}) =>
            /\ ~(res.resp.ok /\ res.resp.status = 429)
            /\ res.attempts = res.retries + 1
            /\ TaskOf(futures, res.uid) = {})
    /\ [][\A t \in futures : t.pc = "request" =>
            \A n \in TaskOf(futures', t.uid) :
                n = t \/ (n.pc = "backoff" /\ n.attempts = t.attempts /\ n.last.status = 429)]_vars

C16_Witness ==
    /\ Observed
    /\ res.outcome = "Error"
    /\ res.retries = 1
    /\ res.attempts = 2

\* C17: the futures held have distinct inner ids, all from UID_START up to but
\* not including the loop variable; a future is added only for the inner id
\* the loop stands at, and the loop variable moves only by one, with that push,
\* or back to UID_START when the scan of an outer key begins.
C17_AdmittedInOrder ==
    /\ [](uid \in UID_START..UID_END)
    /\ [](\A t \in futures : UID_START <= t.uid /\ t.uid < uid)
    /\ [](\A s, t \in futures : s.uid = t.uid => s = t)
    /\ [][\A t \in futures' : (t.pc = "new" /\ t \notin futures) =>
            /\ t.uid = uid
            /\ uid' = uid + 1
            /\ futures' = futures \cup {t}]_vars
    /\ [][uid' # uid =>
            \/ Admits /\ uid' = uid + 1
            \/ mainPc = "check" /\ mainPc' = "scan" /\ uid' = UID_START]_vars

C17_Witness ==
    /\ schedPc = "for"
    /\ uid = UID_END
    /\ \E t \in futures : t.uid = UID_START /\ t.pc = "request"
    /\ \E t \in futures : t.uid = UID_END - 1 /\ t.pc = "new"

\* The text of a logged URL between its first piece and "-question-": the
\* inner id.
RECURSIVE Before(_, _)
Before(s, piece) ==
    IF s = <<>> \/ Head(s) = piece THEN <<>> ELSE <<Head(s)>> \o Before(Tail(s), piece)

\* C18: every line written in this run is the template with an inner id of
\* [UID_START, UID_END) and an outer key of start_qnum..QUESTION_COUNT put in;
\* the log changes only by one line, the URL of a future of the current key
\* whose request is out, in a step that ends that future as found on a 200 with
\* that URL as the final one.
C18_RecordsAreFoundCandidates ==
    /\ [](\A i \in 1..Len(Appended) :
            /\ Head(Appended[i]) = Head(Template)
            /\ \E u \in UID_START..(UID_END - 1) :
                  Before(Tail(Appended[i]), "-question-") = ToString(u)
            /\ \E q \in start_qnum..QUESTION_COUNT :
                  After(Appended[i], "-question-") = ToString(q))
    /\ [](\A t \in futures : t.pc = "request" => t.url = Substitute(t.uid, t.qnum))
    /\ [][VALID_LOGGER' # VALID_LOGGER =>
            \E t \in futures :
                /\ t.pc = "request"
                /\ t.attempts >= 1
                /\ Appended' = Append(Appended, t.url)
                /\ res'.uid = t.uid
                /\ res'.outcome = "Found"
                /\ res'.resp.ok /\ res'.resp.status = 200 /\ res'.resp.final = t.url]_vars

C18_Witness ==
    /\ Observed
    /\ res.outcome = "Found"
    /\ res.uid = UID_END - 1
    /\ qnum = QUESTION_COUNT
    /\ start_qnum < QUESTION_COUNT
    /\ Len(Appended) = 1

\* C19: futures are held only while an outer key is scanned and all are of
\* that key; the scheduler's return leaves none; a request is sent and a line
\* is written only for the key being scanned, by a future held then.
C19_TasksOfCurrentKey ==
    /\ [](mainPc # "scan" => futures = {})
    /\ [](\A t \in futures : t.qnum = qnum /\ qnum \in start_qnum..QUESTION_COUNT)
    /\ [][Returns => futures' = {}]_vars
    /\ [][probed' # probed => (mainPc = "scan" /\ probed' = probed \cup {qnum})]_vars
    /\ [][\A t \in futures' : t \notin futures =>
            mainPc = "scan" /\ (Awaiting \/ schedPc = "while") /\ t.qnum = qnum]_vars
    /\ [][VALID_LOGGER' # VALID_LOGGER => (mainPc = "scan" /\ HasRecord(qnum)')]_vars

C19_Witness ==
    /\ mainPc = "scan"
    /\ qnum = start_qnum + 1
    /\ HasRecord(start_qnum)
    /\ \E t \in futures : t.pc = "backoff"
    /\ \E t \in futures : t.pc = "jitter"

\* C20: with the flag set no request is sent, the request that raced with the
\* store counting as sent at its check of the flag: no future's attempt count
\* grows; a future that was not started or was at a sleep ends as cancelled at
\* its next step, and a future answered 429 goes at most to its backoff sleep.
C20_NoRequestAfterStop ==
    /\ [][STOP_REQUESTED =>
            /\ probed' = probed
            /\ \A t \in futures : \A n \in TaskOf(futures', t.uid) : n.attempts = t.attempts
            /\ \A t \in futures : t.pc \in {"new", "jitter", "backoff"} =>
                  \/ t \in futures'
                  \/ futures' = {}
                  \/ (res'.uid = t.uid /\ res'.outcome = "Cancelled"
                        /\ res'.attempts = t.attempts /\ TaskOf(futures', t.uid) = {})]_vars
    /\ []((Observed /\ res.outcome = "Cancelled") =>
            (STOP_REQUESTED /\ res.result = None /\ res.attempts = res.retries))

C20_Witness ==
    /\ Observed
    /\ STOP_REQUESTED
    /\ res.outcome = "Cancelled"
    /\ res.retries = MaxRetries
    /\ res.attempts = MaxRetries

====
